---- MODULE Spec2Model ----
(***************************************************************************)
(* The DNS wire-format decoder of 3dns-record-decoding.                    *)
(*                                                                         *)
(*   src/src/dnsEvents.ts   decodeDnsName, parseDnsRrSet                   *)
(*   src/unnamed/part_000   the dns-packet iterative RRSet loop (main)     *)
(*                                                                         *)
(* A JavaScript string is a sequence of character codes, a Uint8Array a    *)
(* sequence of bytes (0..255) read at the 0-based index i as bytes[i + 1]. *)
(* A 32-bit bitwise result is a function 0..31 -> {0, 1} (bit i has weight *)
(* 2^i); the JavaScript number it stands for is kept in base 2^16 as       *)
(* [hi, lo], value hi * 65536 + lo with lo in 0..65535, so that values     *)
(* beyond 2^31 - 1 and negative values are both represented exactly.       *)
(***************************************************************************)
EXTENDS Integers, Sequences, FiniteSets, TLC

VARIABLES
  entry,               \* which function of the program is being run
  recordHex,           \* parseDnsRrSet's argument recordHex (a hex string)
  eventOwnerNameHex,   \* parseDnsRrSet's argument eventOwnerNameHex
  rawBytes,            \* the byte buffer being decoded
  ownerNameFromEvent,  \* the decoded hint name
  offset,              \* the decode cursor
  records,             \* the records pushed so far / returned
  pc,                  \* position in the function
  warnings,            \* console.warn calls: <<rr.name, ownerNameFromEvent>>
  errors,              \* console.error calls: [message, offset]
  thrown,              \* the exception that left the function, or NoMessage
  nameResult,          \* what a direct decodeDnsName call returned
  fields,              \* per pushed record: where its fields lie in rawBytes
  iterations,          \* loop iterations executed so far
  input                \* how the buffer was put together: [rrs, len]

vars == <<entry, recordHex, eventOwnerNameHex, rawBytes, ownerNameFromEvent,
          offset, records, pc, warnings, errors, thrown, nameResult, fields,
          iterations, input>>

----------------------------------------------------------------------------
(* Bounds of the model *)

\* records concatenated into one RRSet buffer
MaxRecords == 2
\* bytes cut from the end of an RRSet buffer to truncate it
MaxTrim == 14
\* length of the exhaustively enumerated buffers given to decodeDnsName
MaxNameLen == 4
\* largest of the small lengths dnsPacket.answer.encodingLength may report
MaxConsumed == 2

----------------------------------------------------------------------------
(* Strings and hex conversion *)

NoMessage == ""
BufferTooShort == "Buffer too short for DnsName label"

\* "." in `label + "."`
Dot == 46
\* "0" and "x" of the "0x" prefix
Char0 == 48
CharX == 120
\* the digits "0123456789abcdef"
HexChars == <<48, 49, 50, 51, 52, 53, 54, 55, 56, 57, 97, 98, 99, 100, 101, 102>>

HexVal(c) == CHOOSE v \in 0..15 : HexChars[v + 1] = c

\* ethers.hexlify: "0x" and two lower-case hex digits per byte
hexlify(bytes) ==
  [i \in 1..(2 + 2 * Len(bytes)) |->
     IF i = 1 THEN Char0
     ELSE IF i = 2 THEN CharX
     ELSE LET b == bytes[((i - 3) \div 2) + 1]
          IN IF (i - 3) % 2 = 0 THEN HexChars[(b \div 16) + 1]
                                ELSE HexChars[(b % 16) + 1]]

\* ethers.getBytes of a "0x"-prefixed, even-length hex string
getBytes(hex) ==
  [i \in 1..((Len(hex) - 2) \div 2) |->
     16 * HexVal(hex[2 * i + 1]) + HexVal(hex[2 * i + 2])]

\* Buffer.toString("ascii") of one byte: the high bit is dropped
AsciiChar(b) == b % 128

\* Uint8Array.prototype.slice(from, to), 0-based, to exclusive and clamped to
\* the length
slice(bytes, from, to) ==
  SubSeq(bytes, from + 1, IF to > Len(bytes) THEN Len(bytes) ELSE to)

----------------------------------------------------------------------------
(* 32-bit bitwise arithmetic of JavaScript *)

\* ToInt32 of a number in 0..2^31 - 1 (bit 31 is clear)
Bits32(n) == [i \in 0..31 |-> IF i = 31 THEN 0 ELSE (n \div (2 ^ i)) % 2]

Shl(v, k) == [i \in 0..31 |-> IF i >= k THEN v[i - k] ELSE 0]

BitOr(v, w) == [i \in 0..31 |-> IF v[i] = 1 \/ w[i] = 1 THEN 1 ELSE 0]

RECURSIVE BitsValue(_, _, _)
BitsValue(v, from, to) ==
  IF from > to THEN 0 ELSE v[from] + 2 * BitsValue(v, from + 1, to)

\* the signed 32-bit number a bitwise result is, in base 2^16
Int32Number(v) ==
  [hi |-> BitsValue(v, 16, 30) - v[31] * 32768, lo |-> BitsValue(v, 0, 15)]

\* (rawBytes[offset] << 8) | rawBytes[offset + 1]
readUInt16(bytes, off) ==
  LET n == Int32Number(BitOr(Shl(Bits32(bytes[off + 1]), 8), Bits32(bytes[off + 2])))
  IN n.hi * 65536 + n.lo

\* (b0 << 24) | (b1 << 16) | (b2 << 8) | b3
readTtl(bytes, off) ==
  Int32Number(BitOr(BitOr(BitOr(Shl(Bits32(bytes[off + 1]), 24),
                                Shl(Bits32(bytes[off + 2]), 16)),
                          Shl(Bits32(bytes[off + 3]), 8)),
                    Bits32(bytes[off + 4])))

----------------------------------------------------------------------------
(* decodeDnsName *)

RECURSIVE decodeLoop(_, _, _)
decodeLoop(bytes, currentOffset, name) ==
  IF ~(currentOffset < Len(bytes))
  THEN [threw |-> FALSE, message |-> NoMessage, name |-> name,
        newOffset |-> currentOffset]
  ELSE LET length == bytes[currentOffset + 1]
           co == currentOffset + 1
       IN IF length = 0
          THEN [threw |-> FALSE, message |-> NoMessage, name |-> name,
                newOffset |-> co]
          ELSE IF co + length > Len(bytes)
          THEN [threw |-> TRUE, message |-> BufferTooShort, name |-> <<>>,
                newOffset |-> co]
          ELSE decodeLoop(bytes, co + length,
                 name \o [i \in 1..length |-> AsciiChar(bytes[co + i])] \o <<Dot>>)

decodeDnsName(bytes, off) == decodeLoop(bytes, off, <<>>)

----------------------------------------------------------------------------
(* parseDnsRrSet: one iteration of the record loop *)

NoRR == [name |-> <<>>, type |-> 0, class |-> 0, ttl |-> [hi |-> 0, lo |-> 0],
         rdata |-> <<>>]

NoFields == [nameAt |-> 0, typeAt |-> 0, rdataAt |-> 0, rdLength |-> 0,
             nested |-> FALSE, nestedRead |-> 0]

\* `if (offset + n > rawBytes.length) break;`
FieldTruncated(bytes, off, n) == off + n > Len(bytes)

\* `if (offset + rdLength > rawBytes.length) break;`
RdataNeverTruncated(bytes, off, rdLength) == FALSE

RdataTruncated(bytes, off, rdLength) == off + rdLength > Len(bytes)

\* `rr.type === 2 && rr.class === 1`
IsNsIn(type, class) == type = 2 /\ class = 1

\* the name decoded from the buffer itself, at the RDATA's offset
decodeRdataNameInPlace(bytes, start, rdLength) ==
  LET r == decodeDnsName(bytes, start)
  IN [r EXCEPT !.newOffset = r.newOffset - start]

\* decodeDnsName(rawBytes.slice(offset, offset + rdLength), 0)
decodeRdataName(bytes, start, rdLength) ==
  decodeDnsName(slice(bytes, start, start + rdLength), 0)

\* a `break` on a truncated field: nothing is logged, nothing is pushed
Break(off, warn, name) ==
  [kind |-> "break", offset |-> off, rr |-> NoRR, warn |-> warn, name |-> name,
   message |-> NoMessage, at |-> NoFields]

\* the catch block: console.error(message, offset), then break
Caught(off, warn, name, message) ==
  [kind |-> "catch", offset |-> off, rr |-> NoRR, warn |-> warn, name |-> name,
   message |-> message, at |-> NoFields]

\* records.push(rr)
Push(off, warn, rr, at) ==
  [kind |-> "push", offset |-> off, rr |-> rr, warn |-> warn, name |-> rr.name,
   message |-> NoMessage, at |-> at]

\* the body of `while (offset < rawBytes.length)`, from the cursor off
rrStep(bytes, off, hintName) ==
  LET nr == decodeDnsName(bytes, off) IN
  IF nr.threw THEN Caught(off, FALSE, <<>>, nr.message) ELSE
  LET name == nr.name
      o1 == nr.newOffset
      warn == name # hintName
  IN
  IF FieldTruncated(bytes, o1, 2) THEN Break(o1, warn, name) ELSE
  LET type == readUInt16(bytes, o1)
      o2 == o1 + 2
  IN
  IF FieldTruncated(bytes, o2, 2) THEN Break(o2, warn, name) ELSE
  LET class == readUInt16(bytes, o2)
      o3 == o2 + 2
  IN
  IF FieldTruncated(bytes, o3, 4) THEN Break(o3, warn, name) ELSE
  LET ttl == readTtl(bytes, o3)
      o4 == o3 + 4
  IN
  IF FieldTruncated(bytes, o4, 2) THEN Break(o4, warn, name) ELSE
  LET rdLength == readUInt16(bytes, o4)
      o5 == o4 + 2
  IN
  IF RdataTruncated(bytes, o5, rdLength) THEN Break(o5, warn, name) ELSE
  LET rdataBytes == slice(bytes, o5, o5 + rdLength)
      o6 == o5 + rdLength
      at == [nameAt |-> off, typeAt |-> o1, rdataAt |-> o5, rdLength |-> rdLength,
             nested |-> FALSE, nestedRead |-> 0]
  IN
  IF IsNsIn(type, class)
  THEN LET rn == decodeRdataName(bytes, o5, rdLength) IN
       IF rn.threw THEN Caught(o6, warn, name, rn.message)
       ELSE Push(o6, warn,
                 [name |-> name, type |-> type, class |-> class, ttl |-> ttl,
                  rdata |-> rn.name],
                 [at EXCEPT !.nested = TRUE, !.nestedRead = rn.newOffset])
  ELSE Push(o6, warn,
            [name |-> name, type |-> type, class |-> class, ttl |-> ttl,
             rdata |-> hexlify(rdataBytes)],
            at)

----------------------------------------------------------------------------
(* The inputs *)

Rep(b, n) == [i \in 1..n |-> b]

U16(n) == <<n \div 256, n % 256>>

\* "moe.box."
OwnerMoeBox == <<3, 109, 111, 101, 3, 98, 111, 120, 0>>

\* the first record of recordHexData (scenario A)
ScenarioA ==
  [owner |-> OwnerMoeBox, type |-> 2, class |-> 1, ttl |-> <<0, 0, 56, 64>>,
   rdata |-> <<5, 100, 101, 114, 101, 107, 2, 110, 115, 10, 99, 108, 111, 117,
               100, 102, 108, 97, 114, 101, 3, 99, 111, 109, 0>>]

\* the second record of recordHexData
ScenarioA2 ==
  [owner |-> OwnerMoeBox, type |-> 2, class |-> 1, ttl |-> <<0, 0, 56, 64>>,
   rdata |-> <<6, 100, 97, 112, 104, 110, 101, 2, 110, 115, 10, 99, 108, 111,
               117, 100, 102, 108, 97, 114, 101, 3, 99, 111, 109, 0>>]

\* the commented-out example 2 (scenario B): bookings.ohms.box. A 172.66.0.70
ScenarioB ==
  [owner |-> <<8, 98, 111, 111, 107, 105, 110, 103, 115, 4, 111, 104, 109, 115,
               3, 98, 111, 120, 0>>,
   type |-> 1, class |-> 1, ttl |-> <<0, 0, 14, 16>>, rdata |-> <<172, 66, 0, 70>>]

\* recordHexData, as written in the source (no "0x" prefix)
recordHexData ==
  <<
    48, 51, 54, 100, 54, 102, 54, 53, 48, 51, 54, 50, 54, 102, 55, 56,
    48, 48, 48, 48, 48, 50, 48, 48, 48, 49, 48, 48, 48, 48, 51, 56,
    52, 48, 48, 48, 49, 57, 48, 53, 54, 52, 54, 53, 55, 50, 54, 53,
    54, 98, 48, 50, 54, 101, 55, 51, 48, 97, 54, 51, 54, 99, 54, 102,
    55, 53, 54, 52, 54, 54, 54, 99, 54, 49, 55, 50, 54, 53, 48, 51,
    54, 51, 54, 102, 54, 100, 48, 48, 48, 51, 54, 100, 54, 102, 54, 53,
    48, 51, 54, 50, 54, 102, 55, 56, 48, 48, 48, 48, 48, 50, 48, 48,
    48, 49, 48, 48, 48, 48, 51, 56, 52, 48, 48, 48, 49, 97, 48, 54,
    54, 52, 54, 49, 55, 48, 54, 56, 54, 101, 54, 53, 48, 50, 54, 101,
    55, 51, 48, 97, 54, 51, 54, 99, 54, 102, 55, 53, 54, 52, 54, 54,
    54, 99, 54, 49, 55, 50, 54, 53, 48, 51, 54, 51, 54, 102, 54, 100,
    48, 48
  >>

\* owner-name encodings: well formed ones and malformed ones
Owners ==
  { <<0>>,                                   \* the root name
    <<1, 97, 0>>,                            \* "a."
    <<1, 225, 0>>,                           \* a label byte above 127
    <<1, 97>>,                               \* no terminating zero label
    <<192, 12>> }                            \* a compression pointer

\* owner names that need a long buffer
LongOwners ==
  { <<64>> \o Rep(97, 64) \o <<0>>,          \* a 64-byte label
    <<192>> \o Rep(97, 192) \o <<0>>,        \* a pointer byte with 192 bytes after it
    Rep(63, 1) \o Rep(97, 63) \o Rep(63, 1) \o Rep(97, 63) \o Rep(63, 1)
      \o Rep(97, 63) \o Rep(63, 1) \o Rep(97, 63) \o <<0>> }   \* 257 encoded bytes

TypeClasses == { <<2, 1>>, <<1, 1>>, <<2, 3>>, <<258, 1>> }

Ttls == { <<0, 0, 0, 0>>, <<0, 0, 56, 64>>, <<128, 0, 0, 0>>, <<255, 255, 255, 255>> }

Rdatas ==
  { <<>>,
    <<1, 98, 0>>,                            \* "b."
    <<1, 98>>,                               \* a name with no terminator
    <<5, 98>>,                               \* a label longer than the RDATA
    <<1, 98, 0, 7>>,                         \* a name and a byte after it
    <<172, 66, 0, 70>> }

\* the first record of a buffer: every owner with every type, class and RDATA,
\* every ttl, the long owners, and the two examples of the source
FirstRecords ==
  { [owner |-> o, type |-> tc[1], class |-> tc[2], ttl |-> <<0, 0, 56, 64>>,
     rdata |-> r] : o \in Owners, tc \in TypeClasses, r \in Rdatas }
  \cup { [owner |-> <<1, 97, 0>>, type |-> tc[1], class |-> tc[2], ttl |-> t,
          rdata |-> <<1, 98, 0>>] : tc \in TypeClasses, t \in Ttls }
  \cup { [owner |-> o, type |-> 2, class |-> 1, ttl |-> <<0, 0, 56, 64>>,
          rdata |-> <<1, 98, 0>>] : o \in LongOwners }
  \cup { ScenarioA, ScenarioB }

\* the records that may follow it
LaterRecords ==
  { ScenarioA2,
    [owner |-> <<1, 97, 0>>, type |-> 1, class |-> 1, ttl |-> <<0, 0, 14, 16>>,
     rdata |-> <<172, 66, 0, 70>>],
    [owner |-> <<0>>, type |-> 2, class |-> 1, ttl |-> <<128, 0, 0, 1>>,
     rdata |-> <<1, 98>>] }

RrSets ==
  UNION { { rrs \in [1..n -> FirstRecords \cup LaterRecords] :
              \A i \in 1..n : IF i = 1 THEN rrs[i] \in FirstRecords
                                       ELSE rrs[i] \in LaterRecords } :
          n \in 0..MaxRecords }

Encode(t) ==
  t.owner \o U16(t.type) \o U16(t.class) \o t.ttl \o U16(Len(t.rdata)) \o t.rdata

RECURSIVE EncodeAll(_)
EncodeAll(rrs) == IF rrs = <<>> THEN <<>> ELSE Encode(Head(rrs)) \o EncodeAll(Tail(rrs))

\* hint names: none, "a.", and one whose label runs past its end
Hints == { <<>>, <<1, 97, 0>>, <<5, 97>> }

NameBytes == { 0, 1, 2, 97, 192 }

NameBuffers == UNION { [1..n -> NameBytes] : n \in 0..MaxNameLen }

----------------------------------------------------------------------------
(* The state machine *)

\* a call parseDnsRrSet(recordHex, eventOwnerNameHex): the buffer is up to
\* MaxRecords encoded records with up to MaxTrim bytes cut from its end; the
\* hint is varied on the uncut buffers
InitParse ==
  \E rrs \in RrSets, hint \in Hints :
    \E trim \in 0..MaxTrim :
      LET whole == EncodeAll(rrs)
          len == Len(whole) - trim
      IN /\ trim <= Len(whole)
         /\ trim = 0 \/ hint = <<>>
         /\ entry = "parseDnsRrSet"
         /\ recordHex = hexlify(SubSeq(whole, 1, len))
         /\ eventOwnerNameHex = hexlify(hint)
         /\ input = [rrs |-> rrs, len |-> len]
         /\ rawBytes = <<>>
         /\ offset = 0

\* a call decodeDnsName(bytes, offset): main and parseDnsRrSet call it at
\* offset 0, the record loop at a cursor inside the buffer
InitName ==
  /\ entry = "decodeDnsName"
  /\ rawBytes \in NameBuffers
       \cup { o \o <<0, 2>> : o \in Owners \cup LongOwners }
  /\ offset \in {0} \cup 0..(Len(rawBytes) - 1)
  /\ recordHex = <<>>
  /\ eventOwnerNameHex = <<>>
  /\ input = [rrs |-> <<>>, len |-> 0]

\* the script of part_000 run on its recordHexData
InitLib ==
  /\ entry = "testDnsPacketLib"
  /\ recordHex = recordHexData
  /\ eventOwnerNameHex = <<>>
  /\ input = [rrs |-> <<ScenarioA, ScenarioA2>>, len |-> Len(recordHexData) \div 2]
  /\ rawBytes = <<>>
  /\ offset = 0

Init ==
  /\ InitParse \/ InitName \/ InitLib
  /\ ownerNameFromEvent = <<>>
  /\ records = <<>>
  /\ pc = "start"
  /\ warnings = <<>>
  /\ errors = <<>>
  /\ thrown = NoMessage
  /\ nameResult = decodeDnsName(<<>>, 0)
  /\ fields = <<>>
  /\ iterations = 0

\* parseDnsRrSet up to the loop: the buffer and the hint name are decoded
ParseStart ==
  /\ entry = "parseDnsRrSet"
  /\ pc = "start"
  /\ rawBytes' = getBytes(recordHex)
  /\ LET hint == decodeDnsName(getBytes(eventOwnerNameHex), 0)
     IN IF hint.threw
        THEN /\ pc' = "thrown"
             /\ thrown' = hint.message
             /\ UNCHANGED ownerNameFromEvent
        ELSE /\ pc' = "loop"
             /\ ownerNameFromEvent' = hint.name
             /\ UNCHANGED thrown
  /\ offset' = 0
  /\ UNCHANGED <<entry, recordHex, eventOwnerNameHex, records, warnings, errors,
                 nameResult, fields, iterations, input>>

\* one pass through the body of the record loop
LoopIteration ==
  /\ entry = "parseDnsRrSet"
  /\ pc = "loop"
  /\ offset < Len(rawBytes)
  /\ LET r == rrStep(rawBytes, offset, ownerNameFromEvent)
     IN /\ offset' = r.offset
        /\ warnings' = IF r.warn THEN Append(warnings, <<r.name, ownerNameFromEvent>>)
                                 ELSE warnings
        /\ errors' = IF r.kind = "catch"
                     THEN Append(errors, [message |-> r.message, offset |-> r.offset])
                     ELSE errors
        /\ records' = IF r.kind = "push" THEN Append(records, r.rr) ELSE records
        /\ fields' = IF r.kind = "push" THEN Append(fields, r.at) ELSE fields
        /\ pc' = IF r.kind = "push" THEN "loop" ELSE "break"
  /\ iterations' = iterations + 1
  /\ UNCHANGED <<entry, recordHex, eventOwnerNameHex, rawBytes, ownerNameFromEvent,
                 thrown, nameResult, input>>

\* `return records`, after the loop condition failed or a break
ParseReturn ==
  /\ entry = "parseDnsRrSet"
  /\ \/ pc = "loop" /\ ~(offset < Len(rawBytes))
     \/ pc = "break"
  /\ pc' = "returned"
  /\ UNCHANGED <<entry, recordHex, eventOwnerNameHex, rawBytes, ownerNameFromEvent,
                 offset, records, warnings, errors, thrown, nameResult, fields,
                 iterations, input>>

\* a direct call of decodeDnsName
DecodeNameCall ==
  /\ entry = "decodeDnsName"
  /\ pc = "start"
  /\ nameResult' = decodeDnsName(rawBytes, offset)
  /\ pc' = IF nameResult'.threw THEN "thrown" ELSE "returned"
  /\ thrown' = nameResult'.message
  /\ UNCHANGED <<entry, recordHex, eventOwnerNameHex, rawBytes, ownerNameFromEvent,
                 offset, records, warnings, errors, fields, iterations, input>>

\* Buffer.from(hex, "hex"), after the "0x" prefix, if any, is cut off
bufferFromHex(hex) ==
  IF Len(hex) >= 2 /\ hex[1] = Char0 /\ hex[2] = CharX
  THEN getBytes(hex)
  ELSE getBytes(<<Char0, CharX>> \o hex)

\* what dnsPacket.answer.encodingLength may report: dns-packet is not part of
\* the repository, so any small length and the true lengths of the two records
ConsumedLengths ==
  0..MaxConsumed \cup { Len(Encode(ScenarioA)), Len(Encode(ScenarioA2)) }

\* part_000, main: recordsBuffer is built and the cursor is set to 0
LibStart ==
  /\ entry = "testDnsPacketLib"
  /\ pc = "start"
  /\ rawBytes' = bufferFromHex(recordHex)
  /\ offset' = 0
  /\ pc' = "loop"
  /\ UNCHANGED <<entry, recordHex, eventOwnerNameHex, ownerNameFromEvent, records,
                 warnings, errors, thrown, nameResult, fields, iterations, input>>

\* part_000, main: one pass through `while (offset < recordsBuffer.length)`;
\* dnsPacket.answer.decode throws, returns nothing, or returns a record
LibIteration ==
  /\ entry = "testDnsPacketLib"
  /\ pc = "loop"
  /\ offset < Len(rawBytes)
  /\ iterations' = iterations + 1
  /\ \/ /\ pc' = "caught"
        /\ errors' = Append(errors, [message |-> "decode threw", offset |-> offset])
        /\ UNCHANGED <<offset, records>>
     \/ /\ pc' = "break"
        /\ errors' = Append(errors, [message |-> "null or undefined", offset |-> offset])
        /\ UNCHANGED <<offset, records>>
     \/ \E consumedLength \in ConsumedLengths :
          /\ records' = Append(records, NoRR)
          /\ IF consumedLength = 0
             THEN /\ pc' = "break"
                  /\ errors' = Append(errors, [message |-> "Consumed length is 0",
                                               offset |-> offset])
                  /\ UNCHANGED offset
             ELSE /\ pc' = "loop"
                  /\ offset' = offset + consumedLength
                  /\ UNCHANGED errors
  /\ UNCHANGED <<entry, recordHex, eventOwnerNameHex, rawBytes, ownerNameFromEvent,
                 warnings, thrown, nameResult, fields, input>>

\* part_000, main: the loop is over and the records are printed
LibDone ==
  /\ entry = "testDnsPacketLib"
  /\ \/ pc = "loop" /\ ~(offset < Len(rawBytes))
     \/ pc = "break"
     \/ pc = "caught"
  /\ pc' = "returned"
  /\ UNCHANGED <<entry, recordHex, eventOwnerNameHex, rawBytes, ownerNameFromEvent,
                 offset, records, warnings, errors, thrown, nameResult, fields,
                 iterations, input>>

Next ==
  \/ ParseStart
  \/ LoopIteration
  \/ ParseReturn
  \/ DecodeNameCall
  \/ LibStart
  \/ LibIteration
  \/ LibDone

Spec == Init /\ [][Next]_vars

----------------------------------------------------------------------------
(* parseDnsRrSet as a function of its two arguments *)

RECURSIVE parseLoop(_, _, _, _)
parseLoop(bytes, hintName, off, recs) ==
  IF ~(off < Len(bytes))
  THEN [thrown |-> NoMessage, records |-> recs, offset |-> off]
  ELSE LET r == rrStep(bytes, off, hintName)
       IN IF r.kind = "push"
          THEN parseLoop(bytes, hintName, r.offset, Append(recs, r.rr))
          ELSE [thrown |-> NoMessage, records |-> recs, offset |-> r.offset]

parseDnsRrSet(hex, hintHex) ==
  LET hint == decodeDnsName(getBytes(hintHex), 0)
  IN IF hint.threw
     THEN [thrown |-> hint.message, records |-> <<>>, offset |-> 0]
     ELSE parseLoop(getBytes(hex), hint.name, 0, <<>>)

----------------------------------------------------------------------------
(* What the claims are stated with *)

Parsing == entry = "parseDnsRrSet"

\* the unsigned big-endian value of the two bytes at the 0-based offset off
BigEndian16(bytes, off) == bytes[off + 1] * 256 + bytes[off + 2]

\* the bytes of the buffer from the 0-based offset off, len of them
BytesAt(bytes, off, len) == [i \in 1..len |-> bytes[off + i]]

\* the unsigned big-endian value of the four bytes at off, in base 2^16
BigEndian32(bytes, off) ==
  [hi |-> BigEndian16(bytes, off), lo |-> BigEndian16(bytes, off + 2)]

ParseOver == Parsing /\ pc \in {"returned", "thrown"}

NameCallOver == entry = "decodeDnsName" /\ pc \in {"returned", "thrown"}

\* b, from its 1-based index i on, is labels of 1..63 ASCII bytes and then,
\* as its last byte, the zero-length label
RECURSIVE IsNameFrom(_, _)
IsNameFrom(b, i) ==
  /\ i <= Len(b)
  /\ IF b[i] = 0 THEN i = Len(b)
     ELSE /\ b[i] <= 63
          /\ i + b[i] < Len(b)
          /\ \A k \in 1..b[i] : b[i + k] < 128 /\ b[i + k] # Dot
          /\ IsNameFrom(b, i + b[i] + 1)

IsName(b) == Len(b) <= 255 /\ IsNameFrom(b, 1)

\* the dotted string of the name b holds from its 1-based index i on
RECURSIVE DottedFrom(_, _)
DottedFrom(b, i) ==
  IF b[i] = 0 THEN <<>>
  ELSE [k \in 1..b[i] |-> b[i + k]] \o <<Dot>> \o DottedFrom(b, i + b[i] + 1)

\* a well-formed record, in the narrowest reading: a name as owner (ASCII
\* labels of 1..63 bytes, at most 255 bytes, ended by the zero byte) and, for
\* NS/IN, such a name as the whole RDATA
WellFormed(t) ==
  /\ IsName(t.owner)
  /\ t.type = 2 /\ t.class = 1 => IsName(t.rdata)

\* the record the encoded record t stands for
Decoded(t) ==
  [name |-> DottedFrom(t.owner, 1), type |-> t.type, class |-> t.class,
   ttl |-> BigEndian32(t.ttl, 0),
   rdata |-> IF t.type = 2 /\ t.class = 1 THEN DottedFrom(t.rdata, 1)
                                           ELSE hexlify(t.rdata)]

\* the number of leading records of rrs that lie entirely in the first len bytes
RECURSIVE WholeRecords(_, _)
WholeRecords(rrs, len) ==
  IF rrs = <<>> \/ Len(Encode(Head(rrs))) > len THEN 0
  ELSE 1 + WholeRecords(Tail(rrs), len - Len(Encode(Head(rrs))))

\* the buffer was put together from well-formed records only
AllWellFormed == \A i \in 1..Len(input.rrs) : WellFormed(input.rrs[i])

\* the hint bytes are a name, or empty
HintIsName ==
  getBytes(eventOwnerNameHex) = <<>> \/ IsName(getBytes(eventOwnerNameHex))

\* "moe.box." and "derek.ns.cloudflare.com."
MoeBox == <<109, 111, 101, 46, 98, 111, 120, 46>>
DerekNsCloudflareCom ==
  <<100, 101, 114, 101, 107, 46, 110, 115, 46, 99, 108, 111, 117, 100, 102, 108,
    97, 114, 101, 46, 99, 111, 109, 46>>

----------------------------------------------------------------------------
(* C1 *)

\* C1: a buffer that is the concatenation of n >= 0 well-formed records
\* decodes to exactly those n records, in order, with the encoded owner, type,
\* class, ttl and rdata, the cursor at the buffer length and no error; the
\* empty buffer gives no record and the scenario A buffer gives moe.box. NS IN
\* 14400 derek.ns.cloudflare.com.
C1_WellFormedDecodes ==
  /\ ParseOver /\ HintIsName
       /\ input.len = Len(EncodeAll(input.rrs))
       /\ AllWellFormed
     => /\ pc = "returned"
        /\ errors = <<>>
        /\ offset = Len(rawBytes)
        /\ records = [i \in 1..Len(input.rrs) |-> Decoded(input.rrs[i])]
  /\ ParseOver /\ HintIsName /\ input.len = 0
     => records = <<>> /\ pc = "returned" /\ errors = <<>>
  /\ ParseOver /\ HintIsName
       /\ input = [rrs |-> <<ScenarioA>>, len |-> Len(Encode(ScenarioA))]
     => records = <<[name |-> MoeBox, type |-> 2, class |-> 1,
                     ttl |-> [hi |-> 0, lo |-> 14400],
                     rdata |-> DerekNsCloudflareCom]>>

----------------------------------------------------------------------------
(* C2 *)

\* decoding the name at the 0-based offset off of b needs a length prefix or
\* a label byte that lies past the end of b
RECURSIVE RunsPastEnd(_, _)
RunsPastEnd(b, off) ==
  IF off >= Len(b) THEN TRUE
  ELSE LET l == b[off + 1]
       IN IF l = 0 \/ l > 63 THEN FALSE
          ELSE IF off + 1 + l > Len(b) THEN TRUE
          ELSE RunsPastEnd(b, off + 1 + l)

\* C2: decodeDnsName throws its truncation error whenever a length prefix or
\* the label body it declares lies past the end of the buffer, a name with no
\* terminating zero label included; it never returns a name then.
C2_TruncatedNameFails ==
  NameCallOver /\ RunsPastEnd(rawBytes, offset)
    => pc = "thrown" /\ thrown = BufferTooShort

----------------------------------------------------------------------------
(* C3 *)

UnsupportedCompression == "UnsupportedCompression"

\* decoding the name at the 0-based offset off of b comes to a length prefix
\* with its top two bits set
RECURSIVE MeetsPointer(_, _)
MeetsPointer(b, off) ==
  IF off >= Len(b) THEN FALSE
  ELSE LET l == b[off + 1]
       IN IF l = 0 THEN FALSE
          ELSE IF l >= 192 THEN TRUE
          ELSE IF off + 1 + l > Len(b) THEN FALSE
          ELSE MeetsPointer(b, off + 1 + l)

\* C3: a length prefix of 192 or more makes decodeDnsName fail with
\* UnsupportedCompression: no name is returned and no other error is thrown.
C3_PointerRejected ==
  NameCallOver /\ MeetsPointer(rawBytes, offset)
    => pc = "thrown" /\ thrown = UnsupportedCompression

----------------------------------------------------------------------------
(* C4 *)

\* C4: a pass of parseDnsRrSet that stops before the end of the buffer hands
\* an error, with its kind and offset, to the caller together with the
\* records decoded before; the function returns the records alone, so the
\* error can be nowhere but in what it reported through console.error.
C4_EarlyStopReported ==
  Parsing /\ pc = "returned" /\ offset < Len(rawBytes)
    => /\ Len(errors) = 1
       /\ errors[1].message # NoMessage
       /\ errors[1].offset = offset

----------------------------------------------------------------------------
(* C5 *)

\* C5: a prefix of a concatenation of well-formed records decodes, without an
\* exception leaving the function, to exactly the records that lie entirely in
\* the prefix.
C5_PrefixDecodes ==
  ParseOver /\ HintIsName
    /\ AllWellFormed
    => /\ pc = "returned"
       /\ records = [i \in 1..WholeRecords(input.rrs, input.len) |->
                       Decoded(input.rrs[i])]

----------------------------------------------------------------------------
(* C6 *)

\* C6: the type, class and rdataLength of every decoded record are the
\* unsigned big-endian values of their two bytes, and its ttl is the unsigned
\* big-endian value of its four bytes, which is never negative.
C6_UnsignedBigEndian ==
  Parsing =>
    \A i \in 1..Len(records) :
      LET at == fields[i].typeAt
      IN /\ records[i].type = BigEndian16(rawBytes, at)
         /\ records[i].class = BigEndian16(rawBytes, at + 2)
         /\ fields[i].rdLength = BigEndian16(rawBytes, at + 8)
         /\ records[i].ttl = BigEndian32(rawBytes, at + 4)
         /\ records[i].ttl.hi >= 0

----------------------------------------------------------------------------
(* C7 *)

\* C7: the hint is advisory: whatever hint bytes are given with a buffer,
\* parseDnsRrSet returns the same records and stops at the same cursor, and
\* no hint stops or aborts the pass.
C7_HintAdvisory ==
  ParseOver =>
    \A h \in Hints :
      LET other == parseDnsRrSet(recordHex, hexlify(h))
      IN /\ other.thrown = thrown
         /\ other.records = records
         /\ other.offset = offset

----------------------------------------------------------------------------
(* C8 *)

\* what record i of the output must be, read off the buffer at the place
\* fields[i] says the record was decoded from
RdataAsSpecified(i) ==
  LET at == fields[i]
      type == BigEndian16(rawBytes, at.typeAt)
      class == BigEndian16(rawBytes, at.typeAt + 2)
      len == BigEndian16(rawBytes, at.typeAt + 8)
      start == at.typeAt + 10
      rdataSlice == BytesAt(rawBytes, start, len)
  IN /\ at.rdataAt = start
     /\ at.rdLength = len
     /\ start + len <= Len(rawBytes)
     /\ IF type = 2 /\ class = 1
        THEN /\ at.nested
             /\ at.nestedRead <= len
             /\ records[i].rdata = decodeDnsName(rdataSlice, 0).name
        ELSE /\ ~at.nested
             /\ Len(records[i].rdata) = 2 + 2 * len
             /\ getBytes(records[i].rdata) = rdataSlice
     /\ IF i < Len(records)
        THEN fields[i + 1].nameAt = start + len
        ELSE pc = "loop" => offset = start + len

\* C8: RDATA is decoded as a name exactly when type is 2 and class is 1, by a
\* decode that reads only the rdataLength bytes of the RDATA; every other
\* RDATA is kept as its raw bytes; either way the cursor moves on by exactly
\* rdataLength.
C8_RdataDecoding ==
  Parsing => \A i \in 1..Len(records) : RdataAsSpecified(i)

\* two records are out: an NS/IN one whose name is shorter than its RDATA, and
\* one whose non-empty RDATA was kept raw
C8_Witness ==
  /\ Parsing
  /\ \E i, j \in 1..Len(records) :
       /\ fields[i].nested
       /\ fields[i].nestedRead < fields[i].rdLength
       /\ ~fields[j].nested
       /\ fields[j].rdLength > 0

----------------------------------------------------------------------------
(* C9 *)

Looping == entry \in {"parseDnsRrSet", "testDnsPacketLib"}

\* C9: a decode pass terminates: the cursor never moves back, the cursor of
\* parseDnsRrSet never exceeds the buffer length, an iteration of the record
\* loop that does not end the loop strictly advances the cursor (one that
\* consumes nothing ends it), and there are at most as many iterations as
\* the buffer has bytes.
C9_Termination ==
  /\ [](Parsing => offset <= Len(rawBytes))
  /\ [](Looping /\ pc # "start" => iterations <= Len(rawBytes))
  /\ [][Looping /\ pc # "start" => offset' >= offset]_vars
  /\ [][Looping /\ pc = "loop" /\ pc' = "loop" => offset' > offset]_vars
  /\ [][Looping /\ iterations' = iterations + 1 /\ offset' = offset
          => pc' \in {"break", "caught"}]_vars

\* parseDnsRrSet pushed one record and its second iteration ended the loop
\* inside the buffer
C9_Witness ==
  /\ Parsing
  /\ iterations = 2
  /\ Len(records) = 1
  /\ pc = "break"
  /\ 0 < offset
  /\ offset < Len(rawBytes)

----------------------------------------------------------------------------
(* C10 *)

\* the length of the longest label of a dotted name string, given the length
\* run of the label being read at the 1-based index i
RECURSIVE LongestLabel(_, _, _)
LongestLabel(name, i, run) ==
  IF i > Len(name) THEN run
  ELSE IF name[i] = Dot
       THEN LET rest == LongestLabel(name, i + 1, 0)
            IN IF run > rest THEN run ELSE rest
       ELSE LongestLabel(name, i + 1, run + 1)

\* the name string has no label above 63 bytes and is at most 255 bytes
\* encoded (a length byte per label, and the zero-length label)
WithinWireBounds(name) ==
  /\ LongestLabel(name, 1, 0) <= 63
  /\ Len(name) + 1 <= 255

\* C10: every name the decoder returns, be it an owner name or the name of
\* an NS RDATA, has no label above 63 bytes and at most 255 encoded bytes.
C10_WireBounds ==
  /\ entry = "decodeDnsName" /\ pc = "returned" => WithinWireBounds(nameResult.name)
  /\ Parsing =>
       \A i \in 1..Len(records) :
         /\ WithinWireBounds(records[i].name)
         /\ fields[i].nested => WithinWireBounds(records[i].rdata)

====
